---- MODULE Spec2Model ----
(***************************************************************************)
(* Model of the extraction-persistence pipeline of the web scraper:        *)
(*   - the relational store behind database/repository.py (committed rows  *)
(*     and the pending rows of one SQLAlchemy session),                     *)
(*   - the DatabaseService facade of database/service.py,                   *)
(*   - BaseScraper.scrape_and_save of scraper/base_scraper.py with its two  *)
(*     sinks (store and JSON file) and the four extractors' scrape().       *)
(***************************************************************************)
EXTENDS Integers, Sequences, FiniteSets, TLC

VARIABLES
    store,      \* committed rows of the five tables
    files,      \* file system of the JSON sink: filename -> written data
    pc,         \* position of the scrape_and_save invocation
    args,       \* arguments and receiver fields of the invocation
    result,     \* the result dict of the invocation
    exc,        \* the exception travelling to the outer handler, if any
    trace,      \* what the invocation has done so far (history)
    calls,      \* number of operations issued so far
    svc,        \* the DatabaseService save call in progress
    obs         \* last observation of the concurrent reader

vars == <<store, files, pc, args, result, exc, trace, calls, svc, obs>>

-----------------------------------------------------------------------------
(* Bounds of the model *)

MaxLen == 2
MaxCalls == 1

(* Value universes *)

Kinds == {"element", "link", "email", "image"}
Urls == {"https://a.com/"}
Items == {"a", "b"}
CssSelector == "p"
FetchMsg == "404 Client Error"
DbMsg == "database is locked"
TypeMsg == "expected str, bytes or os.PathLike object"
ExplicitJson == "out.json"

RECURSIVE SeqsUpTo(_, _)
SeqsUpTo(S, n) ==
    IF n = 0 THEN {<<>>}
    ELSE LET shorter == SeqsUpTo(S, n - 1)
         IN shorter \cup {Append(s, x) : s \in {t \in shorter : Len(t) = n - 1}, x \in S}

DataSeqs == SeqsUpTo(Items, MaxLen)

(* Python's None and a present value *)
None == <<>>
Some(x) == <<x>>

-----------------------------------------------------------------------------
(* The store: committed tables, and the pending rows of one db session *)

EmptyTables ==
    [sessions |-> <<>>, elements |-> <<>>, links |-> <<>>,
     emails |-> <<>>, images |-> <<>>]

(* Session.add: the row joins the pending rows of the unit of work *)
Add(pending, table, row) == [pending EXCEPT ![table] = Append(@, row)]

(* Primary keys are assigned when the pending session rows are flushed *)
WithIds(committed, rows) ==
    [i \in 1..Len(rows) |-> [rows[i] EXCEPT !.id = Len(committed) + i]]

(* Session.commit: every pending row becomes visible at once *)
Commit(committed, pending) ==
    [sessions |-> committed.sessions \o WithIds(committed.sessions, pending.sessions),
     elements |-> committed.elements \o pending.elements,
     links |-> committed.links \o pending.links,
     emails |-> committed.emails \o pending.emails,
     images |-> committed.images \o pending.images]

(* Session.rollback: pending rows are discarded, committed rows stay *)
Rollback(committed, pending) == committed

-----------------------------------------------------------------------------
(* database/repository.py.  Every operation takes the committed store and  *)
(* whether the database accepts the commit, and yields the committed store  *)
(* afterwards, whether it raised, and its return value.                     *)

EmptyDict == <<>>

(* datetime.utcnow() as read by ScrapingSessionRepository.save: the clock   *)
(* has not moved since the latest session was stamped, or it has advanced   *)
LastTimestamp(st) ==
    IF st.sessions = <<>> THEN 0 ELSE st.sessions[Len(st.sessions)].timestamp
Ticks(st) ==
    IF st.sessions = <<>> THEN {1} ELSE {LastTimestamp(st), LastTimestamp(st) + 1}

(* utcnow() of an invocation of scrape_and_save: a fetch of the page lies    *)
(* between its save and the save of the invocation before, so it is later    *)
LaterTicks(st) == {LastTimestamp(st) + 1}

(* ScrapingSessionRepository.save: add, commit, refresh; on failure         *)
(* rollback and re-raise                                                     *)
SessionRepoSave(st, url, scraper_type, status, error_message, metadata, now, commit_ok) ==
    LET row == [id |-> 0, url |-> url, scraper_type |-> scraper_type,
                status |-> status, error_message |-> error_message,
                extra_data |-> metadata, timestamp |-> now]
        pending == Add(EmptyTables, "sessions", row)
    IN  IF commit_ok
        THEN [store |-> Commit(st, pending), raised |-> FALSE,
              value |-> Len(st.sessions) + 1, msg |-> ""]
        ELSE [store |-> Rollback(st, pending), raised |-> TRUE, value |-> 0,
              msg |-> DbMsg]

(* variant that numbers the positions from one *)
ElementRows_OneBased(session_id, css_selector, elements) ==
    [i \in 1..Len(elements) |->
        [session_id |-> session_id, css_selector |-> css_selector,
         element_text |-> elements[i], position |-> i]]

(* The rows built by the four save_batch loops *)
ElementRows(session_id, css_selector, elements) ==
    [i \in 1..Len(elements) |->
        [session_id |-> session_id, css_selector |-> css_selector,
         element_text |-> elements[i], position |-> i - 1]]

(* 'localhost' in link_url, link_url.startswith('/') over the value universe *)
StartsWithSlash(link_url) == link_url \in {"/about"}
HasLocalhost(link_url) == link_url \in {"http://localhost/x"}
IsExternal(link_url) == ~(StartsWithSlash(link_url) \/ HasLocalhost(link_url))

LinkRows(session_id, links) ==
    [i \in 1..Len(links) |->
        [session_id |-> session_id, url |-> links[i],
         is_external |-> IsExternal(links[i]), is_valid |-> TRUE]]

EmailRows(session_id, emails) ==
    [i \in 1..Len(emails) |-> [session_id |-> session_id, email |-> emails[i]]]

ImageRows(session_id, images) ==
    [i \in 1..Len(images) |->
        [session_id |-> session_id, image_url |-> images[i],
         alt_text |-> None, title |-> None]]

(* variant that commits row by row: the rows before the failing one stay *)
SaveBatchRows_Partial(st, table, rows, commit_ok) ==
    LET pending == [EmptyTables EXCEPT ![table] = rows]
        first == [EmptyTables EXCEPT ![table] = SubSeq(rows, 1, 1)]
    IN  IF commit_ok
        THEN [store |-> Commit(st, pending), raised |-> FALSE, value |-> Len(rows),
              msg |-> ""]
        ELSE [store |-> Commit(st, first), raised |-> TRUE, value |-> 0,
              msg |-> DbMsg]

(* add every row, then one commit; on failure rollback and re-raise *)
SaveBatchRows(st, table, rows, commit_ok) ==
    LET pending == [EmptyTables EXCEPT ![table] = rows]
    IN  IF commit_ok
        THEN [store |-> Commit(st, pending), raised |-> FALSE, value |-> Len(rows),
              msg |-> ""]
        ELSE [store |-> Rollback(st, pending), raised |-> TRUE, value |-> 0,
              msg |-> DbMsg]

ElementSaveBatch(st, session_id, css_selector, elements, commit_ok) ==
    SaveBatchRows(st, "elements", ElementRows(session_id, css_selector, elements), commit_ok)

LinkSaveBatch(st, session_id, links, commit_ok) ==
    SaveBatchRows(st, "links", LinkRows(session_id, links), commit_ok)

EmailSaveBatch(st, session_id, emails, commit_ok) ==
    SaveBatchRows(st, "emails", EmailRows(session_id, emails), commit_ok)

ImageSaveBatch(st, session_id, images, commit_ok) ==
    SaveBatchRows(st, "images", ImageRows(session_id, images), commit_ok)

(* find_by_id / find_by_session *)
SelectSeq2(rows, session_id) == SelectSeq(rows, LAMBDA r : r.session_id = session_id)

(* variant without the filter on the id column: .first() of the table *)
SessionFindById_First(st, id) ==
    IF st.sessions = <<>> THEN None ELSE Some(st.sessions[1])

(* find_by_id: .filter(ScrapingSession.id == session_id).first() *)
SessionFindById(st, id) ==
    LET found == SelectSeq(st.sessions, LAMBDA s : s.id = id)
    IN  IF found = <<>> THEN None ELSE Some(found[1])

(* The arrangements of n rows; a query without ORDER BY may answer in any   *)
(* of them                                                                   *)
Injective(p) == \A i, j \in DOMAIN p : p[i] = p[j] => i = j
Perms(n) == {q \in [1..n -> 1..n] : Injective(q)}
Arrange(rows, q) == [i \in 1..Len(rows) |-> rows[q[i]]]

(* variant ordering by position descending *)
OrderByPosition_Desc(rows) ==
    Arrange(rows, CHOOSE q \in Perms(Len(rows)) :
                      \A i, j \in 1..Len(rows) :
                          i < j => rows[q[i]].position >= rows[q[j]].position)

(* .order_by(ExtractedElements.position) *)
OrderByPosition(rows) ==
    Arrange(rows, CHOOSE q \in Perms(Len(rows)) :
                      \A i, j \in 1..Len(rows) :
                          i < j => rows[q[i]].position <= rows[q[j]].position)

(* find_by_session of the four typed repositories *)
ElementFindBySession(st, session_id) == OrderByPosition(SelectSeq2(st.elements, session_id))
LinkFindBySession(st, session_id, q) == Arrange(SelectSeq2(st.links, session_id), q)
EmailFindBySession(st, session_id, q) == Arrange(SelectSeq2(st.emails, session_id), q)
ImageFindBySession(st, session_id, q) == Arrange(SelectSeq2(st.images, session_id), q)

-----------------------------------------------------------------------------
(* database/service.py *)

(* The typed batch save a save_X_extraction delegates to *)
SaveBatchOf(kind, st, session_id, css_selector, data, commit_ok) ==
    CASE kind = "element" -> ElementSaveBatch(st, session_id, css_selector, data, commit_ok)
      [] kind = "link" -> LinkSaveBatch(st, session_id, data, commit_ok)
      [] kind = "email" -> EmailSaveBatch(st, session_id, data, commit_ok)
      [] kind = "image" -> ImageSaveBatch(st, session_id, data, commit_ok)

(* metadata={"css_selector": css_selector, **(metadata or {})} for elements, *)
(* metadata as given for the other kinds                                      *)
SessionMetadata(kind, css_selector, metadata) ==
    IF kind = "element" THEN metadata @@ ("css_selector" :> css_selector) ELSE metadata

ServiceScraperType(kind) == kind \o "_extraction"

(* get_db_session: on an exception rollback the session, log, re-raise *)
GetDbSessionExit(st, r) ==
    IF r.raised THEN [r EXCEPT !.store = Rollback(r.store, EmptyTables)] ELSE r

(* save_X_extraction as a whole: session row, then the batch if non-empty *)
SaveExtraction(kind, st, url, css_selector, data, metadata, now, ok1, ok2) ==
    LET s == SessionRepoSave(st, url, ServiceScraperType(kind), "success", None,
                             SessionMetadata(kind, css_selector, metadata), now, ok1)
    IN  IF s.raised THEN GetDbSessionExit(st, s)
        ELSE IF data # <<>>
             THEN LET b == SaveBatchOf(kind, s.store, s.value, css_selector, data, ok2)
                  IN  IF b.raised THEN GetDbSessionExit(st, b)
                      ELSE [b EXCEPT !.value = s.value]
             ELSE s

(* variant that omits status and error_message, so the defaults apply *)
SaveFailedExtraction_Defaults(st, url, scraper_type, error_message, metadata, now, ok) ==
    SessionRepoSave(st, url, scraper_type, "success", None, metadata, now, ok)

(* variant that records the failure under another status word *)
SaveFailedExtraction_StatusError(st, url, scraper_type, error_message, metadata, now, ok) ==
    SessionRepoSave(st, url, scraper_type, "error", Some(error_message), metadata, now, ok)

(* variant that passes the status but not the error message *)
SaveFailedExtraction_NoMessage(st, url, scraper_type, error_message, metadata, now, ok) ==
    SessionRepoSave(st, url, scraper_type, "failed", None, metadata, now, ok)

(* save_failed_extraction *)
SaveFailedExtraction(st, url, scraper_type, error_message, metadata, now, ok) ==
    GetDbSessionExit(st,
        SessionRepoSave(st, url, scraper_type, "failed", Some(error_message), metadata,
                        now, ok))

(* find_by_url: the sessions whose url column equals url *)
SessionFindByUrl(st, url) == SelectSeq(st.sessions, LAMBDA s : s.url = url)

(* ORDER BY timestamp DESC leaves the order of equal timestamps to the      *)
(* database: every arrangement of the sessions with non-increasing          *)
(* timestamps is a possible answer                                           *)
RecentOrders(st) ==
    LET n == Len(st.sessions)
    IN  {[i \in 1..n |-> st.sessions[p[i]]] :
            p \in {q \in [1..n -> 1..n] :
                      /\ Injective(q)
                      /\ \A i, j \in 1..n :
                            i < j => st.sessions[q[i]].timestamp >= st.sessions[q[j]].timestamp}}

(* find_recent: .order_by(timestamp.desc()).limit(limit) *)
SessionFindRecent(ordered, limit) ==
    SubSeq(ordered, 1, IF limit < Len(ordered) THEN limit ELSE Len(ordered))

(* if url: Python truth value of an Optional[str] *)
Truthy(url) == url # None /\ url[1] # ""

(* get_extraction_history *)
HistoryEntry(s) ==
    [id |-> s.id, url |-> s.url, scraper_type |-> s.scraper_type,
     timestamp |-> s.timestamp, status |-> s.status,
     error_message |-> s.error_message, metadata |-> s.extra_data]

GetExtractionHistory(st, url, limit, ordered) ==
    LET sessions == IF Truthy(url) THEN SessionFindByUrl(st, url[1])
                    ELSE SessionFindRecent(ordered, limit)
    IN  [i \in 1..Len(sessions) |-> HistoryEntry(sessions[i])]

(* get_session_data *)
SessionRows(st, scraper_type, session_id) ==
    CASE scraper_type = "element_extraction" -> SelectSeq2(st.elements, session_id)
      [] scraper_type = "link_extraction" -> SelectSeq2(st.links, session_id)
      [] scraper_type = "email_extraction" -> SelectSeq2(st.emails, session_id)
      [] scraper_type = "image_extraction" -> SelectSeq2(st.images, session_id)
      [] OTHER -> <<>>

(* the arrangements the database may answer the session's row query in *)
SessionOrders(st, session_id) ==
    LET found == SessionFindById(st, session_id)
    IN  IF found = None THEN {<<>>}
        ELSE Perms(Len(SessionRows(st, found[1].scraper_type, session_id)))

SessionInfo(s) ==
    [id |-> s.id, url |-> s.url, scraper_type |-> s.scraper_type,
     timestamp |-> s.timestamp, status |-> s.status, metadata |-> s.extra_data]

ElementShape(e) == [text |-> e.element_text, css_selector |-> e.css_selector,
                    position |-> e.position]
LinkShape(l) == [url |-> l.url, is_external |-> l.is_external, is_valid |-> l.is_valid]
ImageShape(i) == [url |-> i.image_url, alt_text |-> i.alt_text, title |-> i.title]

SessionDataOf(st, s, q) ==
    CASE s.scraper_type = "element_extraction" ->
            LET rows == ElementFindBySession(st, s.id)
            IN  "elements" :> [i \in 1..Len(rows) |-> ElementShape(rows[i])]
      [] s.scraper_type = "link_extraction" ->
            LET rows == LinkFindBySession(st, s.id, q)
            IN  "links" :> [i \in 1..Len(rows) |-> LinkShape(rows[i])]
      [] s.scraper_type = "email_extraction" ->
            LET rows == EmailFindBySession(st, s.id, q)
            IN  "emails" :> [i \in 1..Len(rows) |-> rows[i].email]
      [] s.scraper_type = "image_extraction" ->
            LET rows == ImageFindBySession(st, s.id, q)
            IN  "images" :> [i \in 1..Len(rows) |-> ImageShape(rows[i])]
      [] OTHER -> EmptyDict

GetSessionData(st, session_id, q) ==
    LET found == SessionFindById(st, session_id)
    IN  IF found = None THEN None
        ELSE Some([session |-> SessionInfo(found[1]),
                   data |-> SessionDataOf(st, found[1], q)])

(* get_statistics *)
CountStatus(st, status) == Len(SelectSeq(st.sessions, LAMBDA s : s.status = status))

GetStatistics(st) ==
    [total_sessions |-> Len(st.sessions),
     successful_sessions |-> CountStatus(st, "success"),
     failed_sessions |-> CountStatus(st, "failed"),
     total_elements |-> Len(st.elements), total_links |-> Len(st.links),
     total_emails |-> Len(st.emails), total_images |-> Len(st.images)]

-----------------------------------------------------------------------------
(* utils/file_utils.py: save_to_json.  outcome is what the file system and  *)
(* the serializer do: "ok", "IOError" (open or write fails) or "Exception"  *)
(* (any failure that is not an IOError).                                     *)

FileOutcomes == {"ok", "IOError", "Exception"}

SaveToJson(fs, data, filename, outcome) ==
    CASE outcome = "ok" ->
            [files |-> (filename :> data) @@ fs, raised |-> FALSE, msg |-> ""]
      [] outcome = "IOError" ->
            \* except IOError: print, return normally
            [files |-> fs, raised |-> FALSE, msg |-> ""]
      [] OTHER ->
            [files |-> fs, raised |-> TRUE, msg |-> TypeMsg]

-----------------------------------------------------------------------------
(* scraper/*_extractor.py.  fetch is what session.get + raise_for_status    *)
(* yield: [ok, data, msg], data being what the extractor's comprehension    *)
(* collects from the parsed page.                                            *)

Fetches ==
    [ok : {TRUE}, data : DataSeqs, msg : {""}]
        \cup [ok : {FALSE}, data : {<<>>}, msg : {FetchMsg}]

ElementScrape(fetch) ==
    IF fetch.ok THEN [raised |-> FALSE, value |-> fetch.data, msg |-> ""]
    ELSE [raised |-> TRUE, value |-> <<>>, msg |-> fetch.msg]

LinkScrape(fetch) ==
    IF fetch.ok THEN [raised |-> FALSE, value |-> fetch.data, msg |-> ""]
    ELSE [raised |-> TRUE, value |-> <<>>, msg |-> fetch.msg]

EmailScrape(fetch) ==
    IF fetch.ok THEN [raised |-> FALSE, value |-> fetch.data, msg |-> ""]
    ELSE [raised |-> TRUE, value |-> <<>>, msg |-> fetch.msg]

(* ImageExtractor.scrape wraps its body in try/except Exception: return [] *)
ImageScrape(fetch) ==
    IF fetch.ok THEN [raised |-> FALSE, value |-> fetch.data, msg |-> ""]
    ELSE [raised |-> FALSE, value |-> <<>>, msg |-> ""]

ScrapeOf(kind, fetch) ==
    CASE kind = "element" -> ElementScrape(fetch)
      [] kind = "link" -> LinkScrape(fetch)
      [] kind = "email" -> EmailScrape(fetch)
      [] kind = "image" -> ImageScrape(fetch)

(* X._save_to_database *)
NotConfiguredMsg == "Database service not configured"

SaveToDatabase(kind, st, database_service, url, css_selector, data, kwargs, now, ok1, ok2) ==
    IF ~database_service
    THEN [store |-> st, raised |-> TRUE, value |-> 0, msg |-> NotConfiguredMsg]
    ELSE SaveExtraction(kind, st, url, css_selector, data, kwargs, now, ok1, ok2)

-----------------------------------------------------------------------------
(* scraper/base_scraper.py: BaseScraper.scrape_and_save *)

(* variant without the replace *)
ReplaceExtractor_Unchanged(name) == name

(* self.__class__.__name__.lower().replace('extractor', '_extraction') *)
ClassNameLower(kind) == kind \o "extractor"
ReplaceExtractor(name) ==
    CASE name = "elementextractor" -> "element_extraction"
      [] name = "linkextractor" -> "link_extraction"
      [] name = "emailextractor" -> "email_extraction"
      [] name = "imageextractor" -> "image_extraction"
      [] OTHER -> name
ResultScraperType(kind) == ReplaceExtractor(ClassNameLower(kind))

(* url.replace('://', '_').replace('/', '_') over the value universe *)
UrlSlug(url) == CASE url = "https://a.com/" -> "https_a.com_" [] OTHER -> url

InitResult(kind, url) ==
    [url |-> url, success |-> FALSE, data |-> <<>>, error |-> None,
     session_id |-> None, scraper_type |-> ResultScraperType(kind)]

Filename(json_filename, r, url) ==
    IF json_filename # None THEN json_filename[1]
    ELSE r.scraper_type \o "_" \o UrlSlug(url) \o ".json"

Frame(p, r, e) == [pc |-> p, result |-> r, exc |-> e]

(* variant that does not put the scraped data into the result *)
OnScraped_DropsData(r, scraped_data) == Frame("store", [r EXCEPT !.success = TRUE], None)

(* lines 41-42 *)
OnScraped(r, scraped_data) ==
    Frame("store", [r EXCEPT !.data = scraped_data, !.success = TRUE], None)

(* variant in which a failed scrape goes on to the file sink *)
OnScrapeRaised_ToFile(r, msg) == Frame("json", r, Some(msg))

(* scrape raised: control reaches the outer except clause *)
OnScrapeRaised(r, msg) == Frame("except", r, Some(msg))

(* lines 48-49 *)
OnStoreSaved(r, session_id) ==
    Frame("json", [r EXCEPT !.session_id = Some(session_id)], None)

(* variant without the inner try: the error reaches the outer except clause *)
OnStoreError_Uncaught(r, msg) == Frame("except", r, Some(msg))

(* variants of the db_error handler: it logs without recording the error, *)
(* or leaves the try block of the two sinks                                *)
OnStoreError_Unreported(r, msg) == Frame("json", r, None)
OnStoreError_SkipsFile(r, msg) == Frame("done", ("db_error" :> msg) @@ r, None)

(* lines 50-52: except Exception as db_error *)
OnStoreError(r, msg) == Frame("json", ("db_error" :> msg) @@ r, None)

(* variant in which the store sink comes after the file sink *)
OnFileSaved_ThenStore(r, filename) == Frame("store", ("json_filename" :> filename) @@ r, None)

(* lines 59-60 *)
OnFileSaved(r, filename) == Frame("done", ("json_filename" :> filename) @@ r, None)

(* variant without the inner try: the error reaches the outer except clause *)
OnFileError_Uncaught(r, msg) == Frame("except", r, Some(msg))

(* lines 61-63: except Exception as json_error *)
OnFileError(r, msg) == Frame("done", ("json_error" :> msg) @@ r, None)

(* lines 65-68: the outer except clause *)
OnExcept(r, msg) == [r EXCEPT !.error = Some(msg), !.success = FALSE]

(* line 79 *)
OnFailedSaved(r, session_id) ==
    Frame("done", [r EXCEPT !.session_id = Some(session_id)], None)

(* variant without the inner try: the error leaves scrape_and_save *)
OnFailedError_Uncaught(r, msg) == Frame("raised", r, Some(msg))

(* lines 80-81: except Exception as db_error: log only *)
OnFailedError(r, msg) == Frame("done", r, None)

-----------------------------------------------------------------------------
(* State machine of one scrape_and_save invocation *)

NoArgs ==
    [kind |-> "element", url |-> "https://a.com/", save_to_db |-> FALSE,
     save_to_json |-> FALSE, json_filename |-> None, database_service |-> FALSE,
     css_selector |-> CssSelector, kwargs |-> EmptyDict]

NewTrace(st) ==
    [pre |-> st, fetch_failed |-> FALSE, scrape_returned |-> FALSE,
     scrape_raised |-> FALSE, scraped |-> <<>>, scrape_msg |-> "",
     store_calls |-> 0, store_raised |-> FALSE, store_data |-> <<>>,
     file_calls |-> 0, file_outcome |-> "", file_data |-> <<>>,
     failed_calls |-> 0, failed_raised |-> FALSE,
     after_store |-> <<>>, stages |-> <<>>]

IdleSvc == [pc |-> "idle"]
NoObs == [op |-> "none"]

Init ==
    /\ store = EmptyTables
    /\ files = <<>>
    /\ pc = "idle"
    /\ args = NoArgs
    /\ result = <<>>
    /\ exc = None
    /\ trace = NewTrace(EmptyTables)
    /\ calls = 0
    /\ svc = IdleSvc
    /\ obs = NoObs

Enter(f) ==
    /\ pc' = f.pc
    /\ result' = f.result
    /\ exc' = f.exc

(* scrape_and_save is called: lines 20-36 *)
Call ==
    /\ pc = "idle"
    /\ svc.pc = "idle"
    /\ calls < MaxCalls
    /\ \E kind \in Kinds, url \in Urls, save_to_db \in BOOLEAN, save_to_json \in BOOLEAN,
          json_filename \in {None, Some(ExplicitJson)}, database_service \in BOOLEAN :
          /\ args' = [kind |-> kind, url |-> url, save_to_db |-> save_to_db,
                      save_to_json |-> save_to_json, json_filename |-> json_filename,
                      database_service |-> database_service,
                      css_selector |-> CssSelector, kwargs |-> EmptyDict]
          /\ Enter(Frame("scrape", InitResult(kind, url), None))
    /\ calls' = calls + 1
    /\ trace' = NewTrace(store)
    /\ UNCHANGED <<store, files, svc, obs>>

(* line 40: self.scrape(url), then lines 41-42 or the jump to line 65 *)
ScrapeStep ==
    /\ pc = "scrape"
    /\ \E fetch \in Fetches :
          LET s == ScrapeOf(args.kind, fetch)
          IN  /\ Enter(IF s.raised THEN OnScrapeRaised(result, s.msg)
                       ELSE OnScraped(result, s.value))
              /\ trace' = [trace EXCEPT !.fetch_failed = ~fetch.ok,
                                        !.scrape_returned = ~s.raised,
                                        !.scrape_raised = s.raised,
                                        !.scraped = s.value,
                                        !.scrape_msg = s.msg,
                                        !.stages = Append(@, "scrape")]
    /\ UNCHANGED <<store, files, args, calls, svc, obs>>

(* lines 45-52: the store sink; trace.scraped is the local scraped_data *)
StoreStep ==
    /\ pc = "store"
    /\ IF args.save_to_db /\ args.database_service
       THEN \E now \in LaterTicks(store), ok1 \in BOOLEAN, ok2 \in BOOLEAN :
               LET r == SaveToDatabase(args.kind, store, args.database_service, args.url,
                                       args.css_selector, trace.scraped, args.kwargs,
                                       now, ok1, ok2)
                   f == IF r.raised THEN OnStoreError(result, r.msg)
                        ELSE OnStoreSaved(result, r.value)
               IN  /\ store' = r.store
                   /\ Enter(f)
                   /\ trace' = [trace EXCEPT !.store_calls = @ + 1,
                                             !.store_raised = r.raised,
                                             !.store_data = trace.scraped,
                                             !.after_store = f.result,
                                             !.stages = Append(@, "store")]
       ELSE /\ Enter(Frame("json", result, None))
            /\ trace' = [trace EXCEPT !.after_store = result]
            /\ UNCHANGED store
    /\ UNCHANGED <<files, args, calls, svc, obs>>

(* lines 55-63: the file sink *)
FileStep ==
    /\ pc = "json"
    /\ IF args.save_to_json
       THEN \E outcome \in FileOutcomes :
               LET filename == Filename(args.json_filename, result, args.url)
                   w == SaveToJson(files, trace.scraped, filename, outcome)
               IN  /\ files' = w.files
                   /\ Enter(IF w.raised THEN OnFileError(result, w.msg)
                            ELSE OnFileSaved(result, filename))
                   /\ trace' = [trace EXCEPT !.file_calls = @ + 1,
                                             !.file_outcome = outcome,
                                             !.file_data = trace.scraped,
                                             !.stages = Append(@, "json")]
       ELSE /\ Enter(Frame("done", result, None))
            /\ UNCHANGED <<files, trace>>
    /\ UNCHANGED <<store, args, calls, svc, obs>>

(* lines 65-81: the outer except clause and the failed-session record *)
ExceptStep ==
    /\ pc = "except"
    /\ LET r0 == OnExcept(result, exc[1])
       IN  IF args.save_to_db /\ args.database_service
           THEN \E now \in LaterTicks(store), ok \in BOOLEAN :
                   LET w == SaveFailedExtraction(store, args.url, r0.scraper_type,
                                                 exc[1], args.kwargs, now, ok)
                   IN  /\ store' = w.store
                       /\ Enter(IF w.raised THEN OnFailedError(r0, w.msg)
                                ELSE OnFailedSaved(r0, w.value))
                       /\ trace' = [trace EXCEPT !.failed_calls = @ + 1,
                                                 !.failed_raised = w.raised,
                                                 !.stages = Append(@, "failed")]
           ELSE /\ Enter(Frame("done", r0, None))
                /\ UNCHANGED <<store, trace>>
    /\ UNCHANGED <<files, args, calls, svc, obs>>

(* line 83: return result; an escaped exception also ends the invocation *)
Return ==
    /\ pc \in {"done", "raised"}
    /\ pc' = "idle"
    /\ args' = NoArgs
    /\ result' = <<>>
    /\ exc' = None
    /\ trace' = NewTrace(EmptyTables)
    /\ UNCHANGED <<store, files, calls, svc, obs>>

Next == Call \/ ScrapeStep \/ StoreStep \/ FileStep \/ ExceptStep \/ Return

Spec == Init /\ [][Next]_vars

-----------------------------------------------------------------------------
(* DatabaseService called directly, one commit at a time, with a reader on  *)
(* another connection.  A save_X_extraction commits twice: the session row  *)
(* in ScrapingSessionRepository.save, the typed rows in save_batch.          *)

ServiceOps == Kinds \cup {"failed"}
TestScraperType == "test_extraction"

(* the caller of a query takes the answer; the next step of the service or  *)
(* the next query comes after that                                           *)
Consume ==
    /\ obs # NoObs
    /\ obs' = NoObs
    /\ UNCHANGED <<store, files, pc, args, result, exc, trace, calls, svc>>

(* a save operation of the service is called *)
SvcCall ==
    /\ pc = "idle"
    /\ obs = NoObs
    /\ svc.pc = "idle"
    /\ calls < MaxCalls
    /\ \E op \in ServiceOps, url \in Urls, data \in DataSeqs :
          svc' = [pc |-> "session", op |-> op, url |-> url,
                  data |-> IF op = "failed" THEN <<>> ELSE data,
                  pre |-> store, session_id |-> 0, batch_failed |-> FALSE]
    /\ calls' = calls + 1
    /\ UNCHANGED <<store, files, pc, args, result, exc, trace, obs>>

(* session_repo.save(...): the first commit of the unit of work *)
SvcSession ==
    /\ svc.pc = "session"
    /\ obs = NoObs
    /\ \E now \in Ticks(store), ok \in BOOLEAN :
          LET r == IF svc.op = "failed"
                   THEN SaveFailedExtraction(store, svc.url, TestScraperType, FetchMsg,
                                             EmptyDict, now, ok)
                   ELSE GetDbSessionExit(svc.pre,
                            SessionRepoSave(store, svc.url, ServiceScraperType(svc.op),
                                            "success", None,
                                            SessionMetadata(svc.op, CssSelector, EmptyDict),
                                            now, ok))
          IN  /\ store' = r.store
              /\ svc' = [svc EXCEPT !.session_id = r.value,
                                    !.pc = IF r.raised THEN "raised"
                                           ELSE IF svc.op # "failed" /\ svc.data # <<>>
                                                THEN "batch" ELSE "returned"]
    /\ UNCHANGED <<files, pc, args, result, exc, trace, calls, obs>>

(* X_repo.save_batch(scraping_session.id, ...): the second commit *)
SvcBatch ==
    /\ svc.pc = "batch"
    /\ obs = NoObs
    /\ \E ok \in BOOLEAN :
          LET b == SaveBatchOf(svc.op, store, svc.session_id, CssSelector, svc.data, ok)
              r == GetDbSessionExit(svc.pre, b)
          IN  /\ store' = r.store
              /\ svc' = [svc EXCEPT !.batch_failed = r.raised,
                                    !.pc = IF r.raised THEN "raised" ELSE "returned"]
    /\ UNCHANGED <<files, pc, args, result, exc, trace, calls, obs>>

(* the save operation returns its session id or propagates its exception *)
SvcReturn ==
    /\ svc.pc \in {"returned", "raised"}
    /\ obs = NoObs
    /\ svc' = IdleSvc
    /\ UNCHANGED <<store, files, pc, args, result, exc, trace, calls, obs>>

(* a reader calls get_session_data(id) on the committed store *)
ReadSessionData ==
    /\ obs = NoObs
    /\ \E id \in 1..(MaxCalls + 1) :
          \E q \in SessionOrders(store, id) :
              obs' = [op |-> "get_session_data", session_id |-> id,
                      value |-> GetSessionData(store, id, q), writer |-> svc,
                      ids |-> {store.sessions[i].id : i \in 1..Len(store.sessions)}]
    /\ UNCHANGED <<store, files, pc, args, result, exc, trace, calls, svc>>

(* a reader calls get_statistics() on the committed store *)
ReadStatistics ==
    /\ obs = NoObs
    /\ obs' = [op |-> "get_statistics", value |-> GetStatistics(store), writer |-> svc]
    /\ UNCHANGED <<store, files, pc, args, result, exc, trace, calls, svc>>

NextDb ==
    SvcCall \/ SvcSession \/ SvcBatch \/ SvcReturn \/ ReadSessionData \/ ReadStatistics
        \/ Consume

SpecDb == Init /\ [][NextDb]_vars

-----------------------------------------------------------------------------
(* DatabaseService used by one caller: a sequence of whole save operations, *)
(* each followed by any number of queries.                                   *)

MaxSessions == 2

HistUrls == {"https://a.com/", "https://b.com/"}
HistData == {<<>>, <<"a">>}
QueryUrls == {None, Some("")} \cup {Some(u) : u \in HistUrls \cup {"https://missing.example"}}

(* save_X_extraction(url, data) runs to its return or its exception *)
HistSaveExtraction ==
    /\ Len(store.sessions) < MaxSessions
    /\ obs = NoObs
    /\ \E kind \in Kinds, url \in HistUrls, data \in HistData,
          now \in Ticks(store), ok1 \in BOOLEAN, ok2 \in BOOLEAN :
          store' = SaveExtraction(kind, store, url, CssSelector, data, EmptyDict,
                                  now, ok1, ok2).store
    /\ obs' = NoObs
    /\ UNCHANGED <<files, pc, args, result, exc, trace, calls, svc>>

(* save_failed_extraction(url, scraper_type, error_message) *)
HistSaveFailed ==
    /\ Len(store.sessions) < MaxSessions
    /\ obs = NoObs
    /\ \E url \in HistUrls, now \in Ticks(store), ok \in BOOLEAN :
          store' = SaveFailedExtraction(store, url, TestScraperType, FetchMsg,
                                        EmptyDict, now, ok).store
    /\ obs' = NoObs
    /\ UNCHANGED <<files, pc, args, result, exc, trace, calls, svc>>

(* get_extraction_history(url, limit) *)
HistHistory ==
    /\ obs = NoObs
    /\ \E url \in QueryUrls, limit \in 0..MaxSessions, ordered \in RecentOrders(store) :
          obs' = [op |-> "get_extraction_history", url |-> url, limit |-> limit,
                  value |-> GetExtractionHistory(store, url, limit, ordered)]
    /\ UNCHANGED <<store, files, pc, args, result, exc, trace, calls, svc>>

(* get_statistics() *)
HistStatistics ==
    /\ obs = NoObs
    /\ obs' = [op |-> "get_statistics", value |-> GetStatistics(store), writer |-> svc]
    /\ UNCHANGED <<store, files, pc, args, result, exc, trace, calls, svc>>

NextHist ==
    HistSaveExtraction \/ HistSaveFailed \/ HistHistory \/ HistStatistics \/ Consume

SpecHist == Init /\ [][NextHist]_vars

-----------------------------------------------------------------------------
(* The extractors' scrape on a parsed page.  A page is the sequence of its  *)
(* a and img nodes in document order; a node has its tag and its href (a)   *)
(* or src (img) attribute, None when the attribute is missing.  An          *)
(* attribute value is a sequence of pieces whose concatenation is the       *)
(* string, cut where the code looks: at 'mailto:' and after the address.    *)

Mailto == "mailto:"

Hrefs ==
    {<<Mailto, "a@x.com">>, <<Mailto, "b@x.com">>, <<Mailto, "a@x.com", "?subject=hi">>,
     <<"/about">>, <<"https://b.com/x">>}
Srcs == {<<"/logo.png">>, <<"https://b.com/i.png">>}

Nodes ==
    [tag : {"a"}, attr : {None} \cup {Some(h) : h \in Hrefs}]
        \cup [tag : {"img"}, attr : {None} \cup {Some(s) : s \in Srcs}]

Pages == SeqsUpTo(Nodes, MaxLen)

(* the string a sequence of pieces stands for *)
RECURSIVE Join(_)
Join(pieces) == IF pieces = <<>> THEN "" ELSE Head(pieces) \o Join(Tail(pieces))

(* soup.find_all(tag, attr=True): the nodes of that tag that have the attribute *)
FindAll(page, tag) == SelectSeq(page, LAMBDA n : n.tag = tag /\ n.attr # None)

(* 'mailto:' in a['href'] *)
HasMailto(href) == \E i \in 1..Len(href) : href[i] = Mailto

(* a['href'].split('mailto:')[1]: what stands between the first 'mailto:'   *)
(* and the next one (or the end of the string)                               *)
RECURSIVE UpToMailto(_)
UpToMailto(pieces) ==
    IF pieces = <<>> \/ Head(pieces) = Mailto THEN <<>>
    ELSE <<Head(pieces)>> \o UpToMailto(Tail(pieces))
RECURSIVE AfterMailto(_)
AfterMailto(pieces) ==
    IF Head(pieces) = Mailto THEN Tail(pieces) ELSE AfterMailto(Tail(pieces))
SplitMailto1(href) == Join(UpToMailto(AfterMailto(href)))

(* EmailExtractor.scrape, lines 13-18: emails = set() ... list(emails); the *)
(* order of list(set) is left to the interpreter: order is the arrangement  *)
EmailSet(page) ==
    LET anchors == FindAll(page, "a")
    IN  {SplitMailto1(anchors[i].attr[1]) :
            i \in {j \in 1..Len(anchors) : HasMailto(anchors[j].attr[1])}}
ListOfSet(S) == {s \in SeqsUpTo(S, Cardinality(S)) : Len(s) = Cardinality(S) /\ Injective(s)}
EmailScrapePage(page) == ListOfSet(EmailSet(page))

(* LinkExtractor.scrape, line 13: [a['href'] for a in find_all('a', href=True)] *)
LinkScrapePage(page) ==
    LET anchors == FindAll(page, "a")
    IN  [i \in 1..Len(anchors) |-> Join(anchors[i].attr[1])]

(* requests.compat.urljoin(url, src) over the value universe *)
UrlJoin(url, ref) ==
    CASE url = "https://a.com/" /\ ref = "/logo.png" -> "https://a.com/logo.png"
      [] url = "https://a.com/" /\ ref = "/about" -> "https://a.com/about"
      [] OTHER -> ref

(* ImageExtractor.scrape, lines 16-20 *)
ImageScrapePage(page, url) ==
    LET images == FindAll(page, "img")
    IN  [i \in 1..Len(images) |-> UrlJoin(url, Join(images[i].attr[1]))]

(* extractor.scrape(url) on a fetched page *)
PageEmails ==
    /\ obs = NoObs
    /\ \E page \in Pages, url \in Urls :
          \E list \in EmailScrapePage(page) :
              obs' = [op |-> "email_scrape", url |-> url, page |-> page,
                      value |-> list]
    /\ UNCHANGED <<store, files, pc, args, result, exc, trace, calls, svc>>

PageLinks ==
    /\ obs = NoObs
    /\ \E page \in Pages, url \in Urls :
          obs' = [op |-> "link_scrape", url |-> url, page |-> page,
                  value |-> LinkScrapePage(page)]
    /\ UNCHANGED <<store, files, pc, args, result, exc, trace, calls, svc>>

PageImages ==
    /\ obs = NoObs
    /\ \E page \in Pages, url \in Urls :
          obs' = [op |-> "image_scrape", url |-> url, page |-> page,
                  value |-> ImageScrapePage(page, url)]
    /\ UNCHANGED <<store, files, pc, args, result, exc, trace, calls, svc>>

NextPage == PageEmails \/ PageLinks \/ PageImages \/ Consume

SpecPage == Init /\ [][NextPage]_vars

-----------------------------------------------------------------------------
(* scraper/sitemap_generator.py.  A link is a sequence of pieces (cut around *)
(* the characters that are markup in XML); the document written is the       *)
(* sequence of the pieces of the f-strings, in the order they are appended.  *)

SitemapLinks ==
    {<<"https://a.com/">>, <<"https://a.com/b">>, <<"https://a.com/s?x=1", "&", "y=2">>}
LinkSeqs == SeqsUpTo(SitemapLinks, MaxLen)

(* the default of the filename parameter and the name the test passes *)
SitemapNames == {"sitemap", "test_sitemap.xml"}

XmlHead == "<?xml version=\"1.0\" encoding=\"UTF-8\"?>\n<urlset xmlns=\"http://www.sitemaps.org/schemas/sitemap/0.9\">\n"
LocOpen == "  <url>\n    <loc>"
LocClose == "</loc>\n  </url>\n"
UrlsetClose == "</urlset>\n"

(* lines 4-5: urlset += f"  <url>\n    <loc>{link}</loc>\n  </url>\n" *)
RECURSIVE UrlEntries(_)
UrlEntries(links) ==
    IF links = <<>> THEN <<>>
    ELSE <<LocOpen>> \o Head(links) \o <<LocClose>> \o UrlEntries(Tail(links))

(* lines 3-6 *)
Urlset(links) == <<XmlHead>> \o UrlEntries(links) \o <<UrlsetClose>>

(* line 8: filename = f"{filename}.xml" *)
SitemapPath(filename) == filename \o ".xml"

(* SitemapGenerator.generate: open(filename, "w") and write; an OSError of  *)
(* open or write leaves generate                                             *)
Generate(fs, links, filename, ok) ==
    IF ok THEN [files |-> (SitemapPath(filename) :> Urlset(links)) @@ fs, raised |-> FALSE]
    ELSE [files |-> fs, raised |-> TRUE]

(* generator.generate(links, filename) *)
SitemapGenerate ==
    /\ obs = NoObs
    /\ \E links \in LinkSeqs, filename \in SitemapNames, ok \in BOOLEAN :
          LET r == Generate(files, links, filename, ok)
          IN  /\ files' = r.files
              /\ obs' = [op |-> "generate", links |-> links, filename |-> filename,
                         raised |-> r.raised]
    /\ UNCHANGED <<store, pc, args, result, exc, trace, calls, svc>>

(* with open(name, "r") as f: content = f.read() *)
SitemapOpen ==
    /\ obs = NoObs
    /\ \E name \in SitemapNames \cup {SitemapPath(n) : n \in SitemapNames} :
          obs' = [op |-> "open", filename |-> name,
                  value |-> IF name \in DOMAIN files THEN Some(files[name]) ELSE None]
    /\ UNCHANGED <<store, files, pc, args, result, exc, trace, calls, svc>>

NextSitemap == SitemapGenerate \/ SitemapOpen \/ Consume

SpecSitemap == Init /\ [][NextSitemap]_vars

-----------------------------------------------------------------------------
(* save_element_extraction with the caller's selector and metadata, and the *)
(* queries on what it stored.  svc keeps the arguments and the outcome of   *)
(* the last call.                                                            *)

Selectors == {"h1", "p"}
ElemData == SeqsUpTo({"a"}, MaxLen)
Metadatas == {EmptyDict, "depth" :> "1", "css_selector" :> "p",
              ("css_selector" :> "p") @@ ("depth" :> "1")}

ElemSave ==
    /\ obs = NoObs
    /\ calls < MaxCalls
    /\ \E url \in Urls, css_selector \in Selectors, elements \in ElemData,
          metadata \in Metadatas, now \in Ticks(store), ok1 \in BOOLEAN, ok2 \in BOOLEAN :
          LET r == SaveExtraction("element", store, url, css_selector, elements, metadata,
                                  now, ok1, ok2)
          IN  /\ store' = r.store
              /\ svc' = [pc |-> IF r.raised THEN "raised" ELSE "returned",
                         op |-> "element", url |-> url, data |-> elements,
                         pre |-> store, session_id |-> r.value,
                         batch_failed |-> r.raised /\ ok1,
                         css_selector |-> css_selector, metadata |-> metadata]
    /\ calls' = calls + 1
    /\ UNCHANGED <<files, pc, args, result, exc, trace, obs>>

NextElem == ElemSave \/ ReadSessionData \/ Consume

SpecElem == Init /\ [][NextElem]_vars

-----------------------------------------------------------------------------
(* Properties *)

BaseKeys == {"url", "success", "data", "error", "session_id", "scraper_type"}
Has(r, key) == key \in DOMAIN r
StoreRequested == args.save_to_db /\ args.database_service

(* C1: when the typed batch save of a save_X_extraction fails after the     *)
(* session row was created, the operation raises and the store is what it   *)
(* was before the call (no Session row of that call is left).               *)
C1_BatchFailureLeavesNoSession ==
    (svc.pc = "raised" /\ svc.batch_failed) => store = svc.pre

(* the one list a session-data dict holds (none for an unknown scraper type) *)
DataList(d) == IF DOMAIN d = {} THEN <<>> ELSE d[CHOOSE k \in DOMAIN d : TRUE]

(* C2: a reader that calls get_session_data while a save_X_extraction with  *)
(* a non-empty result sequence is in progress sees the new session with all *)
(* of its child rows or not at all.                                          *)
C2_NoPartialVisibility ==
    (/\ obs.op = "get_session_data"
     /\ obs.writer.pc = "batch"
     /\ obs.session_id = obs.writer.session_id
     /\ obs.value # None)
        => Len(DataList(obs.value[1].data)) = Len(obs.writer.data)

(* C3: once scrape(url) has returned without raising, the invocation never  *)
(* reaches the outer except clause and its result keeps success = True,     *)
(* error = None and data = the scraped sequence, whatever the two sinks do. *)
C3_ExtractionSuccessSurvivesSinks ==
    trace.scrape_returned =>
        /\ pc \in {"store", "json", "done"}
        /\ result.success = TRUE
        /\ result.error = None
        /\ result.data = trace.scraped

C3_Witness ==
    /\ pc = "done"
    /\ trace.scrape_returned
    /\ trace.scraped # <<>>
    /\ trace.store_raised
    /\ trace.file_outcome = "Exception"

(* C4: link extraction succeeded and the store save raised: the result has  *)
(* success = True, data = the links, session_id = None and a non-empty      *)
(* db_error.                                                                 *)
C4_StoreOutageAfterLinks ==
    (pc = "done" /\ args.kind = "link" /\ trace.scrape_returned /\ trace.store_raised)
        => /\ result.success = TRUE
           /\ result.data = trace.scraped
           /\ result.session_id = None
           /\ Has(result, "db_error")
           /\ result.db_error # ""

C4_Witness ==
    /\ pc = "done"
    /\ args.kind = "link"
    /\ Len(trace.scraped) = MaxLen
    /\ trace.store_raised
    /\ Has(result, "db_error")

(* C5: after a successful extraction the file sink is invoked exactly once  *)
(* with the scraped data whenever save_to_json is requested, whether the    *)
(* store save succeeded, failed or was not requested, and what the store    *)
(* sink put in the result (session_id, db_error) is the same after the file *)
(* sink, whether the file sink failed or not.                                *)
C5_SinksIsolated ==
    (pc = "done" /\ trace.scrape_returned) =>
        /\ args.save_to_json =>
              /\ trace.file_calls = 1
              /\ trace.file_data = trace.scraped
              /\ trace.file_outcome = "ok" =>
                    /\ Has(files, result.json_filename)
                    /\ files[result.json_filename] = trace.scraped
        /\ result.session_id = trace.after_store.session_id
        /\ Has(result, "db_error") <=> Has(trace.after_store, "db_error")
        /\ Has(result, "db_error") => result.db_error = trace.after_store.db_error
        /\ (StoreRequested /\ ~trace.store_raised) => result.session_id # None
        /\ trace.store_raised => Has(result, "db_error")

C5_Witness ==
    /\ pc = "done"
    /\ trace.store_raised
    /\ Has(result, "db_error")
    /\ trace.file_outcome = "ok"
    /\ Has(result, "json_filename")

(* C6: with save_to_json after a successful extraction, a successful file   *)
(* write yields json_filename and no json_error, and a write that fails     *)
(* with IOError yields json_error and no json_filename.                      *)
C6_FileOutcomeReported ==
    (pc = "done" /\ trace.scrape_returned /\ args.save_to_json) =>
        /\ trace.file_outcome = "ok" =>
              Has(result, "json_filename") /\ ~Has(result, "json_error")
        /\ trace.file_outcome = "IOError" =>
              Has(result, "json_error") /\ ~Has(result, "json_filename")

(* C7: when scrape(url) raises, the result has success = False, error = the *)
(* message of the exception and empty data; and when the store was          *)
(* requested and accepts the write, exactly one session, with status        *)
(* 'failed' and that message, is added and its id is the result's           *)
(* session_id.                                                               *)
C7_FailedExtractionRecorded ==
    (pc = "done" /\ trace.scrape_raised) =>
        /\ result.success = FALSE
        /\ result.error = Some(trace.scrape_msg)
        /\ result.data = <<>>
        /\ (StoreRequested /\ ~trace.failed_raised) =>
              LET n == Len(trace.pre.sessions)
              IN  /\ Len(store.sessions) = n + 1
                  /\ SubSeq(store.sessions, 1, n) = trace.pre.sessions
                  /\ store.sessions[n + 1].status = "failed"
                  /\ store.sessions[n + 1].error_message = Some(trace.scrape_msg)
                  /\ store.sessions[n + 1].url = args.url
                  /\ result.session_id = Some(store.sessions[n + 1].id)
                  /\ [store EXCEPT !.sessions = trace.pre.sessions] = trace.pre

C7_Witness ==
    /\ pc = "done"
    /\ trace.scrape_raised
    /\ StoreRequested
    /\ ~trace.failed_raised
    /\ result.session_id # None

(* C8: for every extractor kind a fetch or HTTP failure makes scrape raise, *)
(* so scrape_and_save reports success = False.                               *)
C8_FetchFailurePropagates ==
    (pc = "done" /\ trace.fetch_failed) =>
        trace.scrape_raised /\ result.success = FALSE

(* C9: when scrape raises and the write of the failed-session record fails  *)
(* too, the result has success = False, error = the message of the          *)
(* extraction error, session_id = None, and a field besides the six base    *)
(* fields that reports the store failure.                                    *)
C9_FailedWriteErrorReported ==
    (pc = "done" /\ trace.scrape_raised /\ trace.failed_raised) =>
        /\ result.success = FALSE
        /\ result.error = Some(trace.scrape_msg)
        /\ result.session_id = None
        /\ DOMAIN result \ BaseKeys # {}

(* C10: no exception escapes scrape_and_save: whatever fails, every started *)
(* invocation can take its next step until it is done, never ends raised,   *)
(* and returns a mapping with url, success, data, error, session_id and     *)
(* scraper_type.                                                             *)
C10_NoExceptionEscapes ==
    /\ pc # "raised"
    /\ pc \in {"scrape", "store", "json", "except"} =>
          ENABLED (ScrapeStep \/ StoreStep \/ FileStep \/ ExceptStep)
    /\ Len(trace.stages) <= 3
    /\ pc = "done" => BaseKeys \subseteq DOMAIN result /\ exc = None

C10_Witness ==
    /\ pc = "done"
    /\ trace.scrape_raised
    /\ trace.failed_raised
    /\ BaseKeys \subseteq DOMAIN result

(* C11: one scrape_and_save invocation adds at most one Session row to the  *)
(* store; exactly one when the store was requested and every commit of the  *)
(* invocation is accepted, whether scrape returned or raised; none when     *)
(* save_to_db is False.  No other session row is changed.                    *)
C11_AtMostOneSessionPerInvocation ==
    pc \in {"scrape", "store", "json", "except", "done"} =>
        LET n == Len(trace.pre.sessions)
            added == Len(store.sessions) - n
        IN  /\ added \in {0, 1}
            /\ SubSeq(store.sessions, 1, n) = trace.pre.sessions
            /\ ~args.save_to_db => added = 0
            /\ (pc = "done" /\ StoreRequested
                    /\ ~trace.store_raised /\ ~trace.failed_raised) => added = 1

C11_Witness ==
    /\ pc = "done"
    /\ StoreRequested
    /\ trace.store_raised
    /\ Len(store.sessions) = Len(trace.pre.sessions) + 1

ChildRows(st, session_id) ==
    SelectSeq2(st.elements, session_id) \o SelectSeq2(st.links, session_id)
        \o SelectSeq2(st.emails, session_id) \o SelectSeq2(st.images, session_id)

FailedSessionShape(st, s) ==
    /\ s.status = "failed"
    /\ s.error_message # None
    /\ s.error_message[1] # ""
    /\ ChildRows(st, s.id) = <<>>

C13_ErrorMessageIffFailed ==
    \A i \in 1..Len(store.sessions) :
        LET s == store.sessions[i]
        IN  /\ (s.error_message # None) <=> (s.status = "failed")
            /\ s.status \in {"success", "failed"}
            /\ s.scraper_type \in {ServiceScraperType(k) : k \in Kinds} => s.status = "success"
            /\ s.scraper_type = TestScraperType => s.status = "failed"

C13_Witness ==
    /\ Len(store.sessions) = MaxSessions
    /\ \E i, j \in 1..Len(store.sessions) :
          /\ store.sessions[i].status = "failed" /\ store.sessions[i].error_message # None
          /\ store.sessions[j].status = "success" /\ store.sessions[j].error_message = None
          /\ ChildRows(store, store.sessions[j].id) = <<>>

(* C14: after any sequence of save operations, whole or failed part-way,     *)
(* get_statistics() returns total_sessions = successful_sessions +           *)
(* failed_sessions.                                                           *)
C14_StatisticsAddUp ==
    /\ obs.op = "get_statistics" =>
          /\ obs.value = GetStatistics(store)
          /\ obs.value.total_sessions
                = obs.value.successful_sessions + obs.value.failed_sessions
    /\ GetStatistics(store).total_sessions
          = GetStatistics(store).successful_sessions + GetStatistics(store).failed_sessions

C14_Witness ==
    /\ obs.op = "get_statistics"
    /\ obs.value.total_sessions = MaxSessions
    /\ obs.value.failed_sessions >= 1
    /\ obs.value.successful_sessions >= 1
    /\ obs.value.total_elements + obs.value.total_links
         + obs.value.total_emails + obs.value.total_images = 0

(* C18: get_extraction_history(url, limit) returns, for every given url      *)
(* value, all and only the sessions whose url equals it (no limit applied,   *)
(* the empty sequence when none match); when no url is given it returns      *)
(* min(limit, number of sessions) sessions, the most recent ones by          *)
(* timestamp, most recent first.                                              *)
EntriesOfStore(h) ==
    /\ \A i \in 1..Len(h) : \E k \in 1..Len(store.sessions) : h[i] = HistoryEntry(store.sessions[k])
    /\ \A i, j \in 1..Len(h) : h[i].id = h[j].id => i = j

C18_HistoryFilter ==
    obs.op = "get_extraction_history" =>
        LET h == obs.value
            n == Len(store.sessions)
        IN  /\ EntriesOfStore(h)
            /\ IF obs.url # None
               THEN /\ \A i \in 1..Len(h) : h[i].url = obs.url[1]
                    /\ \A k \in 1..n :
                          store.sessions[k].url = obs.url[1]
                              => \E i \in 1..Len(h) : h[i].id = store.sessions[k].id
               ELSE /\ Len(h) = IF obs.limit < n THEN obs.limit ELSE n
                    /\ \A i, j \in 1..Len(h) : i < j => h[i].timestamp >= h[j].timestamp
                    /\ \A k \in 1..n :
                          (\A i \in 1..Len(h) : h[i].id # store.sessions[k].id)
                              => \A i \in 1..Len(h) : h[i].timestamp >= store.sessions[k].timestamp

(* the same statement for the url values that are not the empty string *)
C18_HistoryFilterNonEmptyUrl ==
    (obs.op = "get_extraction_history" /\ obs.url # Some("")) => C18_HistoryFilter

(* C15: for every kind K and non-empty result sequence R,                    *)
(* get_session_data(save_K_extraction(url, R)) returns a session with the    *)
(* given url, K's scraper_type and status 'success' whose data holds exactly *)
(* the values of R in K's row shape, no rows of other sessions, and in the   *)
(* order of R when K = element.                                               *)
DataKey(kind) ==
    CASE kind = "element" -> "elements" [] kind = "link" -> "links"
      [] kind = "email" -> "emails" [] kind = "image" -> "images"

ExpectedItem(kind, R, i) ==
    CASE kind = "element" -> [text |-> R[i], css_selector |-> CssSelector, position |-> i - 1]
      [] kind = "link" -> [url |-> R[i], is_external |-> TRUE, is_valid |-> TRUE]
      [] kind = "email" -> R[i]
      [] kind = "image" -> [url |-> R[i], alt_text |-> None, title |-> None]

ReadOfReturnedSave ==
    /\ obs.op = "get_session_data"
    /\ obs.writer.pc = "returned"
    /\ obs.writer.op \in Kinds
    /\ obs.writer.data # <<>>
    /\ obs.session_id = obs.writer.session_id

C16_RowCountMatchesResult ==
    (/\ svc.pc \in {"returned", "raised"}
     /\ svc.op \in Kinds
     /\ Len(store.sessions) > Len(svc.pre.sessions))
        => LET s == store.sessions[Len(store.sessions)]
           IN  s.status = "success" => Len(ChildRows(store, s.id)) = Len(svc.data)

(* C17: save_batch of a typed repository is all-or-nothing: after it returns *)
(* all len(results) rows are committed; after it raises none of the rows of  *)
(* the batch is visible in the store and the error reaches the caller.       *)
ChildTables == {"elements", "links", "emails", "images"}
TableOf(kind) == DataKey(kind)

C17_BatchAllOrNothing ==
    /\ (svc.pc \in {"returned", "raised"} /\ svc.op \in Kinds /\ svc.batch_failed) =>
          /\ svc.pc = "raised"
          /\ \A t \in ChildTables : store[t] = svc.pre[t]
    /\ (svc.pc = "returned" /\ svc.op \in Kinds /\ svc.data # <<>>) =>
          LET t == TableOf(svc.op)
              n == Len(svc.pre[t])
          IN  /\ Len(store[t]) = n + Len(svc.data)
              /\ SubSeq(store[t], 1, n) = svc.pre[t]
              /\ \A i \in 1..Len(svc.data) : store[t][n + i].session_id = svc.session_id
              /\ \A u \in ChildTables \ {t} : store[u] = svc.pre[u]

C17_Witness ==
    /\ svc.pc = "raised"
    /\ svc.op = "image"
    /\ svc.batch_failed
    /\ Len(svc.data) = MaxLen
    /\ store.images = svc.pre.images

(* C19: get_session_data(session_id) returns None, without raising, when no  *)
(* session with that id exists, and a result that is not None for every id   *)
(* returned by a prior successful save operation.                             *)
C19_AbsentIffUnknownId ==
    obs.op = "get_session_data" =>
        /\ (obs.value = None) <=> (obs.session_id \notin obs.ids)
        /\ obs.value # None => obs.value[1].session.id = obs.session_id
        /\ (obs.writer.pc = "returned" /\ obs.session_id = obs.writer.session_id)
               => obs.value # None

C19_Witness ==
    /\ obs.op = "get_session_data"
    /\ obs.ids # {}
    /\ obs.session_id \notin obs.ids
    /\ obs.value = None

(* C20: whenever scrape_and_save is called with save_to_db=True and the      *)
(* extraction succeeds, exactly one of (session_id is not None) and (a       *)
(* db_error field is present) holds in the result, also for a scraper        *)
(* constructed without a database service.                                   *)
C20_StoreOutcomeReported ==
    (pc = "done" /\ args.save_to_db /\ trace.scrape_returned)
        => ((result.session_id # None) # Has(result, "db_error"))

(* the same statement for scrapers that were given a database service *)
C20_StoreOutcomeReportedWithService ==
    (pc = "done" /\ StoreRequested /\ trace.scrape_returned)
        => ((result.session_id # None) # Has(result, "db_error"))

(* C22: email extraction returns the set of distinct addresses taken from    *)
(* mailto: anchors: every address appears exactly once in the result however *)
(* many anchors carry it, and every returned entry is the address portion of *)
(* some mailto: href on the page.                                             *)
MailtoHrefs(page) ==
    {n.attr[1] : n \in {page[i] : i \in {j \in 1..Len(page) :
        page[j].tag = "a" /\ page[j].attr # None /\ page[j].attr[1][1] = Mailto}}}

(* the address portion of a mailto: href: what follows the scheme, without  *)
(* the ?header part                                                          *)
AddressOf(href) == href[2]

PageAddresses(page) == {AddressOf(h) : h \in MailtoHrefs(page)}

C22_DistinctAddresses ==
    obs.op = "email_scrape" =>
        /\ \A i \in 1..Len(obs.value) : obs.value[i] \in PageAddresses(obs.page)
        /\ \A a \in PageAddresses(obs.page) :
              Cardinality({i \in 1..Len(obs.value) : obs.value[i] = a}) = 1

(* the same statement for pages whose mailto: hrefs are the bare address *)
C22_DistinctBareAddresses ==
    (obs.op = "email_scrape" /\ \A h \in MailtoHrefs(obs.page) : Len(h) = 2)
        => C22_DistinctAddresses

(* C23: link extraction returns one entry per anchor that has an href, in    *)
(* document order, and every returned value is in absolute form resolved     *)
(* against the page URL (a relative href such as '/about' is never returned  *)
(* unresolved).                                                               *)
Relative == {"/about", "/logo.png"}

C23_LinksAbsolute ==
    obs.op = "link_scrape" =>
        LET anchors == FindAll(obs.page, "a")
        IN  /\ Len(obs.value) = Len(anchors)
            /\ \A i \in 1..Len(anchors) :
                  /\ obs.value[i] \notin Relative
                  /\ Join(anchors[i].attr[1]) \notin Relative
                         => obs.value[i] = Join(anchors[i].attr[1])
                  /\ Join(anchors[i].attr[1]) = "/about"
                         => obs.value[i] = "https://a.com/about"

(* one entry per anchor with an href, in document order, as written *)
C23_LinksInDocumentOrder ==
    obs.op = "link_scrape" =>
        LET anchors == FindAll(obs.page, "a")
        IN  /\ Len(obs.value) = Len(anchors)
            /\ \A i \in 1..Len(anchors) : obs.value[i] = Join(anchors[i].attr[1])

(* the image extractor does resolve its values against the page URL *)
C23_ImagesAbsolute ==
    obs.op = "image_scrape" =>
        /\ Len(obs.value) = Len(FindAll(obs.page, "img"))
        /\ \A i \in 1..Len(obs.value) : obs.value[i] \notin Relative

(* C24: for every sequence of URLs, generate writes a urlset document that,  *)
(* when re-parsed, yields exactly one loc entry per input URL, equal to the  *)
(* input URL and in input order.                                              *)
ParseFailure == [ok |-> FALSE, locs |-> <<>>]

(* character data of an element: a bare & or < is not well-formed XML, and  *)
(* &amp; stands for &                                                        *)
WellFormedText(pieces) == \A i \in 1..Len(pieces) : pieces[i] \notin {"&", "<"}
Unescape(pieces) == [i \in 1..Len(pieces) |-> IF pieces[i] = "&amp;" THEN "&" ELSE pieces[i]]

RECURSIVE TextBefore(_)
TextBefore(toks) ==
    IF toks = <<>> \/ Head(toks) = LocClose THEN <<>>
    ELSE <<Head(toks)>> \o TextBefore(Tail(toks))

RECURSIVE ParseEntries(_)
ParseEntries(toks) ==
    IF toks = <<>> THEN ParseFailure
    ELSE IF Head(toks) = UrlsetClose THEN [ok |-> Tail(toks) = <<>>, locs |-> <<>>]
    ELSE IF Head(toks) # LocOpen THEN ParseFailure
    ELSE LET text == TextBefore(Tail(toks))
         IN  IF Len(text) + 1 >= Len(toks) \/ ~WellFormedText(text) THEN ParseFailure
             ELSE LET r == ParseEntries(SubSeq(toks, Len(text) + 3, Len(toks)))
                  IN  IF r.ok THEN [ok |-> TRUE, locs |-> <<Join(Unescape(text))>> \o r.locs]
                      ELSE ParseFailure

Reparse(content) ==
    IF content = <<>> \/ Head(content) # XmlHead THEN ParseFailure
    ELSE ParseEntries(Tail(content))

GenerateReturned == obs.op = "generate" /\ ~obs.raised

C24_SitemapRoundTrip ==
    GenerateReturned =>
        LET r == Reparse(files[SitemapPath(obs.filename)])
        IN  /\ r.ok
            /\ r.locs = [i \in 1..Len(obs.links) |-> Join(obs.links[i])]

(* the same statement for URLs without a character that is markup in XML *)
C24_SitemapRoundTripPlainUrls ==
    (GenerateReturned /\ \A i \in 1..Len(obs.links) : WellFormedText(obs.links[i]))
        => C24_SitemapRoundTrip

(* C25: after generate(links, name) the sitemap content (containing the      *)
(* urlset root) is readable from the file whose path is exactly the name the *)
(* caller passed.                                                             *)
C25_SitemapAtGivenName ==
    GenerateReturned =>
        /\ obs.filename \in DOMAIN files
        /\ Head(files[obs.filename]) = XmlHead

(* the content is readable from the passed name with '.xml' appended *)
C25_SitemapAtNameDotXml ==
    GenerateReturned =>
        /\ SitemapPath(obs.filename) \in DOMAIN files
        /\ Head(files[SitemapPath(obs.filename)]) = XmlHead

(* C21: after save_element_extraction(url, css_selector, elements, metadata) *)
(* for any caller metadata, the stored session's attribute bag contains      *)
(* every caller key and a css_selector entry equal to the css_selector       *)
(* argument, i.e. to the selector stored on each of that session's element   *)
(* rows.                                                                      *)
ElementSaveReturned ==
    /\ svc.pc = "returned"
    /\ svc.op = "element"
    /\ "metadata" \in DOMAIN svc

C21_SelectorInAttributeBag ==
    ElementSaveReturned =>
        LET s == SessionFindById(store, svc.session_id)[1]
            rows == SelectSeq2(store.elements, svc.session_id)
        IN  /\ \A k \in DOMAIN svc.metadata : k \in DOMAIN s.extra_data
            /\ "css_selector" \in DOMAIN s.extra_data
            /\ s.extra_data["css_selector"] = svc.css_selector
            /\ \A i \in 1..Len(rows) : rows[i].css_selector = s.extra_data["css_selector"]

(* the same statement for caller metadata without a css_selector key, where *)
(* the caller's values are kept as well                                      *)
C21_SelectorInAttributeBagNoClash ==
    (ElementSaveReturned /\ "css_selector" \notin DOMAIN svc.metadata) =>
        /\ C21_SelectorInAttributeBag
        /\ \A k \in DOMAIN svc.metadata :
              SessionFindById(store, svc.session_id)[1].extra_data[k] = svc.metadata[k]

(* C26: within one invocation the stages occur in the order extraction,      *)
(* store persistence (if requested), file persistence (if requested),        *)
(* return: no sink is invoked before extraction has completed, the file sink *)
(* never before the store sink has finished, and each stage runs at most     *)
(* once.                                                                      *)
StageAt(name) == {i \in 1..Len(trace.stages) : trace.stages[i] = name}

C26_StageOrder ==
    /\ \A name \in {"scrape", "store", "json", "failed"} : Cardinality(StageAt(name)) <= 1
    /\ trace.store_calls <= 1 /\ trace.file_calls <= 1 /\ trace.failed_calls <= 1
    /\ trace.stages # <<>> => trace.stages[1] = "scrape"
    /\ pc \in {"store", "json", "except", "done"} => StageAt("scrape") = {1}
    /\ \A i \in StageAt("json"), j \in StageAt("store") : j < i
    /\ pc = "store" => StageAt("store") = {} /\ StageAt("json") = {}
    /\ pc = "json" => StageAt("json") = {}
    /\ StageAt("store") # {} => args.save_to_db
    /\ StageAt("json") # {} => args.save_to_json
    /\ (pc = "done" /\ trace.scrape_returned) =>
          /\ StoreRequested => StageAt("store") # {}
          /\ args.save_to_json => StageAt("json") # {}

C26_Witness ==
    /\ pc = "done"
    /\ trace.stages = <<"scrape", "store", "json">>

(* C28: when the extraction step fails, the file sink is never invoked and   *)
(* the result carries neither json_filename nor json_error, even if          *)
(* save_to_json was requested.                                                *)
C28_NoFileAfterFailedExtraction ==
    trace.scrape_raised =>
        /\ trace.file_calls = 0
        /\ ~Has(result, "json_filename")
        /\ ~Has(result, "json_error")
        /\ pc \in {"except", "done"}

C28_Witness ==
    /\ pc = "done"
    /\ trace.scrape_raised
    /\ args.save_to_json
    /\ result.success = FALSE

(* C29: in one invocation the sequence handed to the store sink, the one     *)
(* handed to the file sink and the data field of the returned result are the *)
(* sequence returned by scrape(url).                                          *)
C29_SameDataEverywhere ==
    /\ trace.store_calls = 1 => trace.store_data = trace.scraped
    /\ trace.file_calls = 1 => trace.file_data = trace.scraped
    /\ (trace.scrape_returned /\ pc \in {"store", "json", "done"}) =>
            result.data = trace.scraped
    /\ (trace.file_calls = 1 /\ trace.file_outcome = "ok") =>
            files[Filename(args.json_filename, result, args.url)] = result.data
    /\ (trace.store_calls = 1 /\ ~trace.store_raised /\ pc \in {"json", "done"}) =>
            Len(ChildRows(store, result.session_id[1])) = Len(result.data)

C29_Witness ==
    /\ pc = "done"
    /\ trace.store_calls = 1 /\ ~trace.store_raised
    /\ trace.file_calls = 1 /\ trace.file_outcome = "ok"
    /\ Len(result.data) = MaxLen

(* C30: for each extractor the scraper_type recorded on a failed session     *)
(* written by scrape_and_save equals the one the matching save_X_extraction  *)
(* records on a successful session, so get_session_data takes the same kind  *)
(* branch for both.                                                           *)
C30_FailedScraperTypeMatches ==
    /\ \A kind \in Kinds : ResultScraperType(kind) = ServiceScraperType(kind)
    /\ (pc = "done" /\ trace.failed_calls = 1 /\ ~trace.failed_raised) =>
          LET s == store.sessions[Len(store.sessions)]
          IN  /\ s.status = "failed"
              /\ s.scraper_type = ServiceScraperType(args.kind)
              /\ DOMAIN SessionDataOf(store, s, <<>>) = {DataKey(args.kind)}
    /\ (pc = "done" /\ trace.store_calls = 1 /\ ~trace.store_raised) =>
          store.sessions[Len(store.sessions)].scraper_type = result.scraper_type

C30_Witness ==
    /\ pc = "done"
    /\ trace.failed_calls = 1 /\ ~trace.failed_raised
    /\ args.kind = "link"
    /\ store.sessions[Len(store.sessions)].scraper_type = "link_extraction"

(* C27: ElementRepository.save_batch gives the i-th input element (from      *)
(* zero) the position i, so a session's element rows carry exactly the       *)
(* positions 0..n-1, and find_by_session returns them by ascending position, *)
(* i.e. in input order.                                                       *)
C27_ElementPositions ==
    (svc.pc = "returned" /\ svc.op = "element") =>
        LET rows == SelectSeq2(store.elements, svc.session_id)
            found == ElementFindBySession(store, svc.session_id)
            n == Len(svc.data)
        IN  /\ Len(rows) = n
            /\ {rows[i].position : i \in 1..n} = 0..(n - 1)
            /\ \A i \in 1..n :
                  \E k \in 1..n : rows[k].position = i - 1 /\ rows[k].element_text = svc.data[i]
            /\ Len(found) = n
            /\ \A i \in 1..n : found[i].element_text = svc.data[i] /\ found[i].position = i - 1
            /\ \A i, j \in 1..n : i < j => found[i].position < found[j].position

C27_Witness ==
    /\ svc.pc = "returned"
    /\ svc.op = "element"
    /\ svc.data = <<"b", "a">>
    /\ LET found == ElementFindBySession(store, svc.session_id)
       IN  found[1].element_text = "b" /\ found[1].position = 0 /\ found[2].position = 1

====
